---- MODULE Spec2Model ----
(***************************************************************************)
(* Model of splib/spcpl.py: the coupling layer between a macro model (GCM) *)
(* and a set of micro models (LES), one per macro column.                  *)
(*                                                                         *)
(* Numbers are exact rationals <<n, d>> in lowest terms with d > 0.  A     *)
(* float division by zero yields PosInf, NegInf or NaN, as numpy does for  *)
(* float64 operands; Python's None is the empty tuple.  All quantities are *)
(* in SI units.                                                            *)
(***************************************************************************)
EXTENDS Integers, Sequences, FiniteSets, TLC

----------------------------------------------------------------------------
(* Exact rational arithmetic                                               *)

Abs(n) == IF n < 0 THEN -n ELSE n

RECURSIVE GCD(_, _)
GCD(a, b) == IF b = 0 THEN a ELSE GCD(b, a % b)

Norm(n, d) ==
    LET s == IF d < 0 THEN -1 ELSE 1
        g == GCD(Abs(n), Abs(d))
    IN  IF n = 0 THEN <<0, 1>> ELSE <<(s * n) \div g, (s * d) \div g>>

R(n) == <<n, 1>>
Q(n, d) == Norm(n, d)

\* over the least common denominator, so that intermediate values stay small
RAdd(a, b) ==
    LET g == GCD(a[2], b[2])
    IN  Norm(a[1] * (b[2] \div g) + b[1] * (a[2] \div g), (a[2] \div g) * b[2])
RNeg(a) == <<-a[1], a[2]>>
RSub(a, b) == RAdd(a, RNeg(b))
\* cross-reduce before multiplying so that intermediate products stay small
RMul(a, b) ==
    LET x == Norm(a[1], b[2])
        y == Norm(b[1], a[2])
    IN  Norm(x[1] * y[1], x[2] * y[2])
RInv(a) == Norm(a[2], a[1])
RDiv(a, b) == RMul(a, RInv(b))
RLt(a, b) == LET g == GCD(a[2], b[2]) IN a[1] * (b[2] \div g) < b[1] * (a[2] \div g)
RLe(a, b) == LET g == GCD(a[2], b[2]) IN a[1] * (b[2] \div g) <= b[1] * (a[2] \div g)
RPos(a) == a[1] > 0
RNegative(a) == a[1] < 0
RZero == <<0, 1>>
ROne == <<1, 1>>
RMax(a, b) == IF RLt(a, b) THEN b ELSE a

\* the non-finite float64 values, and Python's None
PosInf == <<1, 0>>
NegInf == <<-1, 0>>
NaN == <<0, 0>>
None == <<>>
IsNone(x) == Len(x) = 0

\* float64 division: a zero divisor gives an infinity or nan, never an error
FDiv(a, b) ==
    IF b[1] # 0 THEN RDiv(a, b)
    ELSE IF a[1] > 0 THEN PosInf
    ELSE IF a[1] < 0 THEN NegInf
    ELSE NaN

----------------------------------------------------------------------------
(* Array helpers (numpy slicing and element-wise arithmetic)               *)

\* a sequence written as a function, as the explicit tuple of its values
Arr(f) == SubSeq(f, 1, Len(f))

Rev(s) == Arr([i \in 1..Len(s) |-> s[Len(s) + 1 - i]])
Last(s) == s[Len(s)]
VAdd(a, b) == Arr([i \in 1..Len(a) |-> RAdd(a[i], b[i])])
VSub(a, b) == Arr([i \in 1..Len(a) |-> RSub(a[i], b[i])])
VMul(a, b) == Arr([i \in 1..Len(a) |-> RMul(a[i], b[i])])
VScale(c, a) == Arr([i \in 1..Len(a) |-> RMul(c, a[i])])
VConst(n, c) == Arr([i \in 1..n |-> c])

RECURSIVE RSum(_)
RSum(s) == IF Len(s) = 0 THEN RZero ELSE RAdd(s[1], RSum(Tail(s)))

\* numpy.cumsum
CumSum(s) == Arr([i \in 1..Len(s) |-> RSum(SubSeq(s, 1, i))])

\* numpy.interp(x, xp, fp) for one abscissa: linear inside, end values outside
Interp1(x, xp, fp) ==
    LET n == Len(xp)
    IN  IF RLe(x, xp[1]) THEN fp[1]
        ELSE IF RLe(xp[n], x) THEN fp[n]
        ELSE LET j == CHOOSE i \in 1..(n - 1) : RLe(xp[i], x) /\ RLt(x, xp[i + 1])
                 slope == RDiv(RSub(fp[j + 1], fp[j]), RSub(xp[j + 1], xp[j]))
             IN  RAdd(RMul(slope, RSub(x, xp[j])), fp[j])

Interp(x, xp, fp) == Arr([i \in 1..Len(x) |-> Interp1(x[i], xp, fp)])

\* numpy.searchsorted(a, v, side="right"), 0-based insertion index
SearchSortedRight(a, v) ==
    Arr([i \in 1..Len(v) |-> Cardinality({j \in 1..Len(a) : RLe(a[j], v[i])})])

----------------------------------------------------------------------------
(* sputils: physical constants and the exner helpers                       *)

\* Round values, chosen so that the rationals of the model stay small.
rd == 287                \* gas constant of dry air, J/kg/K
rv == Q(44772, 100)      \* gas constant of water vapour: rv/rd - 1 = 0.56
cp == 1000               \* specific heat of dry air, J/kg/K
rlv == 2500000           \* latent heat of vaporisation, J/kg
grav == Q(98, 10)        \* m/s^2

\* exner(p) = (p/pref0)^(rd/cp) with pref0 = 100000 Pa: the power law is
\* replaced by the polygon through the nodes below (pressure in Pa, exner
\* value), which like it is positive and increasing for p > 0
ExnerNodes ==
    << <<0, RZero>>, <<41000, Q(56, 75)>>, <<49200, Q(119, 150)>>,
       <<61500, Q(21, 25)>>, <<82000, Q(14, 15)>>, <<100000, ROne>>,
       <<118000, Q(16, 15)>> >>
exner(p) ==
    Interp1(p, Arr([n \in 1..Len(ExnerNodes) |-> R(ExnerNodes[n][1])]),
               Arr([n \in 1..Len(ExnerNodes) |-> ExnerNodes[n][2]]))
iexner(p) == RInv(exner(p))

----------------------------------------------------------------------------
(* convert_profiles: heights and the macro state on the micro grid         *)

gcm_vars == <<"U", "V", "T", "SH", "QL", "QI", "Pfull", "Phalf", "A">>
surf_vars == <<"Z0M", "Z0H", "QLflux", "QIflux", "SHflux", "TLflux", "TSflux">>

\* virtual temperature
VirtualT(p) ==
    LET c == RSub(RDiv(rv, R(rd)), ROne)
    IN  Arr([i \in 1..Len(p.T) |->
            RMul(p.T[i], RSub(RAdd(ROne, RMul(c, p.SH[i])), RAdd(p.QL[i], p.QI[i])))])

\* thickness of each cell
CellDZ(p) ==
    LET Tv == VirtualT(p)
        dP == Arr([i \in 1..(Len(p.Phalf) - 1) |-> RSub(p.Phalf[i + 1], p.Phalf[i])])
    IN  Arr([i \in 1..Len(p.T) |->
            RMul(RDiv(RMul(R(rd), Tv[i]), RMul(grav, p.Pfull[i])), dP[i])])

\* the cumulative sum taken from the top, without the reversals
HalfHeightsFromTop(p) == Append(CumSum(CellDZ(p)), RZero)

\* half-level heights: reversed cumulative sum, then a 0 for the ground
HalfHeights(p) == Append(Rev(CumSum(Rev(CellDZ(p)))), RZero)

\* full-level heights: average of the half levels
FullHeights(Zh) ==
    Arr([i \in 1..(Len(Zh) - 1) |-> RMul(RAdd(Zh[i + 1], Zh[i]), Q(1, 2))])

\* the full levels put at the lower face of their cell
GcmHeightsAtFace(p) == [Zh |-> HalfHeights(p), Zf |-> Tail(HalfHeights(p))]

\* the heights of the half and full levels of profile p
GcmHeights(p) == [Zh |-> HalfHeights(p), Zf |-> FullHeights(HalfHeights(p))]

\* the macro state of profile p, whose levels are at heights Zf, Zh, on the
\* micro heights h
ProfilesOn(p, h, Zf, Zh) ==
    LET thl_ == Arr([i \in 1..Len(p.T) |->
                    RMul(RSub(p.T[i],
                              RDiv(RMul(R(rlv), RAdd(p.QL[i], p.QI[i])), R(cp))),
                         iexner(p.Pfull[i]))])
        qt_ == VAdd(VAdd(p.SH, p.QL), p.QI)
    IN  [u |-> Interp(h, Rev(Zf), Rev(p.U)),
         v |-> Interp(h, Rev(Zf), Rev(p.V)),
         thl |-> Interp(h, Rev(Zf), Rev(thl_)),
         qt |-> Interp(h, Rev(Zf), Rev(qt_)),
         ps |-> p.Phalf[Len(p.Phalf)],
         ql |-> Interp(h, Rev(Zf), Rev(p.QL)),
         gcm_Zf |-> Zf,
         gcm_Zh |-> Zh]

\* the result of convert_profiles for attached profile p and micro heights h,
\* with the heights it stores on the les object (gcm_Zf, gcm_Zh)
ConvertAt(p, h, z) == ProfilesOn(p, h, z.Zf, z.Zh)
convert_profiles(p, h) == ConvertAt(p, h, GcmHeights(p))

----------------------------------------------------------------------------
(* set_gcm_tendencies: the micro state on the macro grid and its forcing   *)

\* the relaxation factor applied to the target only
TendencyOfScaledTarget(factor, target, current, ts) ==
    Arr([i \in 1..Len(target) |->
            RDiv(RSub(RMul(factor, target[i]), current[i]), ts)])

\* forcing = factor * (target - current) / timescale, element-wise
Tendency(factor, target, current, ts) ==
    Arr([i \in 1..Len(target) |->
        RDiv(RMul(factor, RSub(target[i], current[i])), ts)])

\* the scan for the first macro level inside the micro domain: the number
\* of leading (topmost) levels whose tendencies are zeroed
StartIndex(Zf, les_height) ==
    IF \E i \in 1..Len(Zf) : RLt(Zf[i], les_height)
    THEN (CHOOSE i \in 1..Len(Zf) :
            /\ RLt(Zf[i], les_height)
            /\ \A j \in 1..(i - 1) : ~RLt(Zf[j], les_height)) - 1
    ELSE IF Len(Zf) = 0 THEN 0 ELSE Len(Zf) - 1

\* f[0:start_index] = 0
ZeroAbove(f, start_index) ==
    Arr([i \in 1..Len(f) |-> IF i <= start_index THEN RZero ELSE f[i]])

\* les.get_cloudfraction(indices): the cloud cover of the slab of micro levels
\* from each index up to the next one (the last slab reaches the top); a slab
\* is as cloudy as its cloudiest level, and an empty slab is clear
SlabCloud(cloud, lo, hi) ==
    LET ks == {k \in 1..Len(cloud) : lo < k /\ k <= hi}
    IN  IF ks = {} THEN RZero
        ELSE cloud[CHOOSE k \in ks : \A m \in ks : RLe(cloud[m], cloud[k])]

les_get_cloudfraction(cloud, indices) ==
    Arr([n \in 1..Len(indices) |->
        SlabCloud(cloud, indices[n],
                  IF n < Len(indices) THEN indices[n + 1] ELSE Len(cloud))])

\* get_cloud_fraction(les): Zh is les.gcm_Zh, zh the micro half-level heights
get_cloud_fraction(Zh, zh, cloud) ==
    LET all == SearchSortedRight(zh, Zh)
        indices == Rev(SubSeq(all, 1, Len(all) - 1))
    IN  Rev(les_get_cloudfraction(cloud, indices))

\* Dales' thl and ql as a real temperature, with the macro pressures
ReconstructT(p, Zf, h, nat) ==
    LET pf == Interp(h, Rev(Zf), Rev(p.Pfull))
    IN  Arr([k \in 1..Len(h) |->
            RAdd(RMul(nat.thl[k], exner(pf[k])),
                 RDiv(RMul(R(rlv), nat.ql[k]), R(cp)))])

\* get_profile_T replaced by the liquid water potential temperature
get_profile_THL(nat) == nat.thl

\* les.get_profile_T(): the temperature the micro model computes itself
get_profile_T(nat) == nat.T

\* the micro state interpolated to the macro full levels: what each macro
\* variable is relaxed towards
MicroOnMacro(Zf, Zh, h, zh, nat) ==
    LET qt_d == Interp(Zf, h, nat.qt)
        ql_d == Interp(Zf, h, nat.ql)
        ql_ice_d == Interp(Zf, h, nat.ql_ice)
        ql_water_d == Interp(Zf, h, VSub(nat.ql, nat.ql_ice))
    IN  [U |-> Interp(Zf, h, nat.u),
         V |-> Interp(Zf, h, nat.v),
         T |-> Interp(Zf, h, get_profile_T(nat)),
         SH |-> VSub(qt_d, ql_d),
         QL |-> ql_water_d,
         QI |-> ql_ice_d,
         A |-> get_cloud_fraction(Zh, zh, nat.cloud)]

----------------------------------------------------------------------------
(* convert_surface_fluxes                                                  *)
(* The argument is a les object or a dict: m maps the names that are set   *)
(* to their values, and a name outside DOMAIN m is absent.                 *)

\* getattr(les, name, None) and les.get(name, None)
GetOrNone(m, name) == IF name \in DOMAIN m THEN m[name] ELSE None

FluxError(kind) ==
    [status |-> kind, Z0M |-> None, Z0H |-> None, wthl |-> None, wqt |-> None]

\* wthl with the sign of TSflux kept
HeatFluxDownward(TSflux, ps, rho) ==
    RDiv(RMul(TSflux, iexner(ps)), RMul(R(cp), rho))

\* wthl = - TSflux * iexner(Ph[-1]) / (cp * rho)
HeatFlux(TSflux, ps, rho) ==
    RDiv(RMul(RNeg(TSflux), iexner(ps)), RMul(R(cp), rho))

\* wqt = - (QLflux + QIflux + SHflux) / rho
MoistureFlux(QLflux, QIflux, SHflux, rho) ==
    RDiv(RNeg(RAdd(RAdd(QLflux, QIflux), SHflux)), rho)

convert_surface_fluxes(is_dict, m) ==
    LET Ph == IF is_dict THEN GetOrNone(m, "Ph") ELSE GetOrNone(m, "Phalf")
        T == GetOrNone(m, "T")
        QLflux == GetOrNone(m, "QLflux")
        QIflux == GetOrNone(m, "QIflux")
        SHflux == GetOrNone(m, "SHflux")
        TSflux == GetOrNone(m, "TSflux")
        rho == RDiv(Last(Ph), RMul(R(rd), Last(T)))
    IN  IF is_dict /\ ("Ph" \notin DOMAIN m \/ "T" \notin DOMAIN m)
        THEN FluxError("KeyError")        \* les["Ph"], les['T']
        ELSE IF IsNone(Ph) \/ IsNone(T)
        THEN FluxError("TypeError")       \* None[-1]
        ELSE IF IsNone(QLflux) \/ IsNone(QIflux) \/ IsNone(SHflux)
        THEN FluxError("TypeError")       \* None + x
        ELSE IF IsNone(TSflux)
        THEN FluxError("TypeError")       \* - None
        ELSE [status |-> "ok",
              Z0M |-> GetOrNone(m, "Z0M"),
              Z0H |-> GetOrNone(m, "Z0H"),
              wthl |-> HeatFlux(TSflux, Last(Ph), rho),
              wqt |-> MoistureFlux(QLflux, QIflux, SHflux, rho)]

----------------------------------------------------------------------------
(* variability_nudge: per-level spread factor beta and its rate alpha      *)
(* A 3-D field f is indexed f[p][k]: horizontal point p (the flattened     *)
(* (i, j) pair, in argmax order), level k.                                 *)

beta_min == 0
beta_max == 2000
QlRefThresholdInv == 1000000000   \* the significance threshold is 1e-9

\* x > 1e-9 for a rational x, without forming a product beyond 32 bits
Significant(x) == x[1] > x[2] \div QlRefThresholdInv

Column(f, k) == Arr([p \in 1..Len(f) |-> f[p][k]])

\* les.get_profile("QT"): the horizontal mean at each level
SlabMean(f) ==
    Arr([k \in 1..Len(f[1]) |-> RDiv(RSum(Column(f, k)), R(Len(f)))])

\* ql: mean excess of qt over qsat at level k
Condensate(qt, qsat, k) ==
    RDiv(RSum(Arr([p \in 1..Len(qt) |->
                  RMax(RSub(qt[p][k], qsat[p][k]), RZero)])), R(Len(qt)))

get_ql_diff(beta, qt, qsat, ql_ref, k) ==
    LET qt_av == SlabMean(qt)
    IN  RSub(RDiv(RSum(Arr([p \in 1..Len(qt) |->
                          RMax(RSub(RAdd(RMul(beta, RSub(qt[p][k], qt_av[k])), qt_av[k]),
                                    qsat[p][k]), RZero)])),
                  R(Len(qt))),
             ql_ref[k])

\* the zero on each linear piece of get_ql_diff: S is the set of points that
\* contribute on the piece
PieceRoots(qt, qsat, ql_ref, k) ==
    LET qt_av == SlabMean(qt)
        n == Len(qt)
        d(S) == RSum(Arr([p \in 1..n |-> IF p \in S THEN RSub(qt[p][k], qt_av[k]) ELSE RZero]))
        e(S) == RSum(Arr([p \in 1..n |-> IF p \in S THEN RSub(qt_av[k], qsat[p][k]) ELSE RZero]))
    IN  { RDiv(RSub(RMul(R(n), ql_ref[k]), e(S)), d(S)) :
            S \in {T \in SUBSET (1..n) : d(T)[1] # 0} }

\* scipy.optimize.brentq(get_ql_diff, beta_min, beta_max) on a bracket with
\* f(beta_min) <= 0 <= f(beta_max): an end point that is a zero is returned
\* as it is; otherwise the zero inside, which is unique since get_ql_diff is
\* convex in beta, taken exactly (brentq returns it to within 2e-12)
brentq(qt, qsat, ql_ref, k) ==
    IF get_ql_diff(R(beta_min), qt, qsat, ql_ref, k) = RZero THEN R(beta_min)
    ELSE IF get_ql_diff(R(beta_max), qt, qsat, ql_ref, k) = RZero THEN R(beta_max)
    ELSE CHOOSE b \in PieceRoots(qt, qsat, ql_ref, k) :
            /\ RLe(R(beta_min), b) /\ RLe(b, R(beta_max))
            /\ get_ql_diff(b, qt, qsat, ql_ref, k) = RZero

\* numpy.argmax over the flattened horizontal slab: the first maximum
ArgMax(s) ==
    CHOOSE p \in 1..Len(s) :
        /\ \A q \in 1..Len(s) : RLe(s[q], s[p])
        /\ \A q \in 1..(p - 1) : RLt(s[q], s[p])

\* the closed form that brings the point of maximum super-saturation to
\* saturation
ClosedFormBeta(qt, qsat, k) ==
    LET qt_av == SlabMean(qt)
        p == ArgMax(Arr([q \in 1..Len(qt) |-> RSub(qt[q][k], qsat[q][k])]))
    IN  FDiv(RSub(qsat[p][k], qt_av[k]), RSub(qt[p][k], qt_av[k]))

\* a negative closed form clamped at 0
NudgeBetaClamped(qt, qsat, ql_ref, k) ==
    IF Significant(ql_ref[k])
    THEN LET q_min == get_ql_diff(R(beta_min), qt, qsat, ql_ref, k)
             q_max == get_ql_diff(R(beta_max), qt, qsat, ql_ref, k)
         IN  IF RPos(q_min) \/ RNegative(q_max)
             THEN ROne
             ELSE brentq(qt, qsat, ql_ref, k)
    ELSE IF RLt(ql_ref[k], Condensate(qt, qsat, k))
    THEN LET b == ClosedFormBeta(qt, qsat, k)
         IN  IF b[1] < 0 THEN RZero ELSE b
    ELSE ROne

\* a target outside the bracket answered with the nearest end of the bracket
NudgeBetaToBracket(qt, qsat, ql_ref, k) ==
    IF Significant(ql_ref[k])
    THEN LET q_min == get_ql_diff(R(beta_min), qt, qsat, ql_ref, k)
             q_max == get_ql_diff(R(beta_max), qt, qsat, ql_ref, k)
         IN  IF RPos(q_min) THEN R(beta_min)
             ELSE IF RNegative(q_max) THEN R(beta_max)
             ELSE brentq(qt, qsat, ql_ref, k)
    ELSE IF RLt(ql_ref[k], Condensate(qt, qsat, k))
    THEN LET b == ClosedFormBeta(qt, qsat, k)
         IN  IF b[1] < 0 THEN ROne ELSE b
    ELSE ROne

\* beta[k] at the end of the loop body for level k
NudgeBeta(qt, qsat, ql_ref, k) ==
    IF Significant(ql_ref[k])
    THEN LET q_min == get_ql_diff(R(beta_min), qt, qsat, ql_ref, k)
             q_max == get_ql_diff(R(beta_max), qt, qsat, ql_ref, k)
         IN  IF RPos(q_min) \/ RNegative(q_max)
             THEN ROne
             ELSE brentq(qt, qsat, ql_ref, k)
    ELSE IF RLt(ql_ref[k], Condensate(qt, qsat, k))
    THEN LET b == ClosedFormBeta(qt, qsat, k)
         IN  IF b[1] < 0 THEN ROne ELSE b
    ELSE ROne

\* numpy.log(beta) / dt: 0 for beta = 1, -inf for beta = 0, nan for a
\* negative or nan beta, +inf for +inf; any other value is finite and is
\* kept as the pair <<"log", beta, dt>>
LogRate(beta, dt) ==
    IF beta = ROne THEN RZero
    ELSE IF beta = RZero THEN NegInf
    ELSE IF beta = NaN \/ beta[1] < 0 THEN NaN
    ELSE IF beta = PosInf THEN PosInf
    ELSE <<"log", beta, dt>>

\* what variability_nudge delivers: beta per level and the rate alpha handed
\* to set_qt_variability_factor
variability_nudge(qt, qsat, ql_ref, dt) ==
    LET beta == Arr([k \in 1..Len(ql_ref) |-> NudgeBeta(qt, qsat, ql_ref, k)])
    IN  [beta |-> beta,
         alpha |-> Arr([k \in 1..Len(ql_ref) |-> LogRate(beta[k], dt)])]

----------------------------------------------------------------------------
(* The models being coupled: bounded inputs                                *)

NLev == 2        \* macro full levels per column
NZ == 3          \* levels of a micro model (les.k)
Columns == 0..1  \* macro column indices
NPts == 2        \* horizontal points of a micro model (les.itot * les.jtot)

\* macro levels run from the top (1) to the surface (NLev); FromSurface counts
\* them from the surface (1) upwards
FromSurface(i) == NLev + 1 - i

\* By level from the surface: full-level pressure (Pa), the half-level
\* pressure below it (the first is the surface pressure), and the temperature
\* (K) of a dry column.  The values make the cell thicknesses whole metres
\* and the liquid-ice potential temperature 300 K at every level.
PfullTab == <<82000, 61500, 49200, 41000>>
PhalfTab == <<90000, 74000, 59000, 47000, 37000>>
TDry == <<280, 252, 238, 224>>

\* the kinds of column the macro model cycles through as it steps
ProfileKinds ==
    << [moist |-> FALSE, shear |-> FALSE],
       [moist |-> TRUE, shear |-> TRUE] >>

\* a column profile of the macro model, top level first; a moist column has
\* a cloud layer in its second level from the surface, 14 K warmer than the
\* dry column
MacroProfile(kind) ==
    LET lev == Arr([i \in 1..NLev |-> FromSurface(i)])
        wet(i, a) == IF kind.moist /\ lev[i] = 2 THEN a ELSE RZero
    IN  [U |-> Arr([i \in 1..NLev |-> IF kind.shear THEN R(3 + 2 * lev[i]) ELSE R(3)]),
         V |-> Arr([i \in 1..NLev |-> IF kind.shear THEN R(lev[i]) ELSE RZero]),
         T |-> Arr([i \in 1..NLev |-> RAdd(R(TDry[lev[i]]), wet(i, R(14)))]),
         SH |-> Arr([i \in 1..NLev |-> wet(i, Q(1, 100))]),
         QL |-> Arr([i \in 1..NLev |-> wet(i, Q(36, 10000))]),
         QI |-> Arr([i \in 1..NLev |-> wet(i, Q(20, 10000))]),
         Pfull |-> Arr([i \in 1..NLev |-> R(PfullTab[lev[i]])]),
         Phalf |-> Arr([i \in 1..(NLev + 1) |-> R(PhalfTab[NLev + 2 - i])]),
         A |-> Arr([i \in 1..NLev |-> wet(i, Q(1, 2))])]

\* the surface fields of a column, macro sign convention (positive downward)
SurfaceKinds ==
    << [Z0M |-> Q(1, 10), Z0H |-> Q(1, 100), QLflux |-> RZero, QIflux |-> RZero,
        SHflux |-> Q(-1, 10000), TLflux |-> R(-50), TSflux |-> R(-20)],
       [Z0M |-> Q(1, 100), Z0H |-> Q(1, 1000), QLflux |-> Q(1, 100000),
        QIflux |-> RZero, SHflux |-> Q(1, 100000), TLflux |-> R(5), TSflux |-> R(10)] >>

\* the state of column c of the macro model at position t of its cycle
GcmProfileAt(c, t) == MacroProfile(ProfileKinds[((c + t) % Len(ProfileKinds)) + 1])
GcmSurfaceAt(c, t) == SurfaceKinds[((c + t) % Len(SurfaceKinds)) + 1]

\* the grid of a micro model with level thickness dz: full levels zf, half
\* levels zh (the lower face of each level), both ascending
MicroDz == {200, 400, 1200}
MicroGrid(dz) ==
    [zf |-> Arr([k \in 1..NZ |-> Q(dz * (2 * k - 1), 2)]),
     zh |-> Arr([k \in 1..NZ |-> R(dz * (k - 1))])]

\* slab-averaged profiles and 3-D fields of a micro model; qt is the
\* horizontal mean of the field qt3
MkNative(stepped, u, v, thl, T, ql, ql_ice, cloud, ps, qt3, qsat3) ==
    [stepped |-> stepped, u |-> u, v |-> v, thl |-> thl, T |-> T,
     qt |-> SlabMean(qt3), ql |-> ql, ql_ice |-> ql_ice, cloud |-> cloud,
     ps |-> ps, qt3 |-> qt3, qsat3 |-> qsat3]

Uniform3(x) == Arr([p \in 1..NPts |-> Arr([k \in 1..NZ |-> x])])

\* a cloud-free micro state with uniform wind
NativeClear(stepped) ==
    MkNative(stepped, VConst(NZ, R(3)), VConst(NZ, RZero), VConst(NZ, R(290)),
             Arr([k \in 1..NZ |-> R(282 - k)]), VConst(NZ, RZero), VConst(NZ, RZero),
             VConst(NZ, RZero), R(89000),
             Uniform3(Q(8, 1000)), Uniform3(Q(10, 1000)))

\* a micro state with cloud at every level: the first point is
\* super-saturated, the others are not
NativeCloudy ==
    MkNative(TRUE, Arr([k \in 1..NZ |-> R(2 + k)]), VConst(NZ, ROne),
             Arr([k \in 1..NZ |-> R(288 + k)]), Arr([k \in 1..NZ |-> R(285 - k)]),
             VConst(NZ, Q(1, 1000 * NPts)), VConst(NZ, Q(1, 10000)),
             VConst(NZ, Q(1, 2)), R(90500),
             Arr([p \in 1..NPts |-> Arr([k \in 1..NZ |-> IF p = 1 THEN Q(12, 1000) ELSE Q(8, 1000)])]),
             Uniform3(Q(11, 1000)))

Factors == {ROne, Q(1, 2)}
Timesteps == {R(600), R(900)}

Profiles == {GcmProfileAt(c, t) : c \in Columns, t \in 0..(Len(ProfileKinds) - 1)}
Surfaces == {GcmSurfaceAt(c, t) : c \in Columns, t \in 0..(Len(SurfaceKinds) - 1)}
Grids == {MicroGrid(dz) : dz \in MicroDz}

\* the states a micro model can be in: as constructed, and after stepping
Natives == {NativeClear(FALSE), NativeCloudy}

----------------------------------------------------------------------------
(* set_les_forcings and set_gcm_tendencies as functions of what they read  *)

\* the six tendencies of set_les_forcings for the converted profiles cv and
\* the slab averages of the micro model, with the heights and ql profile
\* stored on the les object
ForcingsTo(cv, nat, factor, dt_gcm) ==
    [target |-> [U |-> cv.u, V |-> cv.v, THL |-> cv.thl, QT |-> cv.qt,
                 ps |-> cv.ps, QL |-> cv.ql],
     native |-> [U |-> nat.u, V |-> nat.v, THL |-> nat.thl, QT |-> nat.qt,
                 ps |-> nat.ps, QL |-> nat.ql],
     f |-> [U |-> Tendency(factor, cv.u, nat.u, dt_gcm),
            V |-> Tendency(factor, cv.v, nat.v, dt_gcm),
            THL |-> Tendency(factor, cv.thl, nat.thl, dt_gcm),
            QT |-> Tendency(factor, cv.qt, nat.qt, dt_gcm),
            ps |-> Tendency(factor, <<cv.ps>>, <<nat.ps>>, dt_gcm)[1],
            QL |-> Tendency(factor, cv.ql, nat.ql, dt_gcm)],
     gcm_Zf |-> cv.gcm_Zf, gcm_Zh |-> cv.gcm_Zh, ql_ref |-> cv.ql]

\* set_les_forcings up to the tendencies, for the attached profile p
les_forcings(p, g, nat, factor, dt_gcm) ==
    ForcingsTo(convert_profiles(p, g.zf), nat, factor, dt_gcm)

\* the seven tendencies towards the micro state d on the macro levels, zero
\* down to start_index
TendenciesTo(p, d, start_index, ft, factor) ==
    [target |-> d, start_index |-> start_index,
     f |-> [U |-> ZeroAbove(Tendency(factor, d.U, p.U, ft), start_index),
            V |-> ZeroAbove(Tendency(factor, d.V, p.V, ft), start_index),
            T |-> ZeroAbove(Tendency(factor, d.T, p.T, ft), start_index),
            SH |-> ZeroAbove(Tendency(factor, d.SH, p.SH, ft), start_index),
            QL |-> ZeroAbove(Tendency(factor, d.QL, p.QL, ft), start_index),
            QI |-> ZeroAbove(Tendency(factor, d.QI, p.QI, ft), start_index),
            A |-> ZeroAbove(Tendency(factor, d.A, p.A, ft), start_index)]]

\* set_gcm_tendencies: the micro state on the macro levels, the index of the
\* first macro level inside the micro domain, and the seven tendencies handed
\* to gcm.set_profile_tendency; p is the profile attached to the les, Zf and
\* Zh the heights stored on it
set_gcm_tendencies(p, Zf, Zh, g, nat, ft, factor) ==
    TendenciesTo(p, MicroOnMacro(Zf, Zh, g.zf, g.zh, nat),
                 StartIndex(Zf, Last(g.zf)), ft, factor)

----------------------------------------------------------------------------
(* The conversions tabulated over the bounded inputs: each is computed     *)
(* once per argument and looked up afterwards; an argument that is not     *)
(* tabulated is computed directly.                                         *)

ConvertedKeys == {<<p, g>> : p \in Profiles, g \in Grids}
ConvertedTab == [k \in ConvertedKeys |-> convert_profiles(k[1], k[2].zf)] @@ <<>>

ForcingsKeys ==
    UNION {{<<p, g, n, factor, dt>> :
              p \in Profiles, n \in Natives, factor \in Factors,
              dt \in Timesteps} : g \in Grids}
ForcingsTab ==
    [k \in ForcingsKeys |-> les_forcings(k[1], k[2], k[3], k[4], k[5])] @@ <<>>

LesForcings(p, g, nat, factor, dt_gcm) ==
    IF <<p, g, nat, factor, dt_gcm>> \in ForcingsKeys
    THEN ForcingsTab[<<p, g, nat, factor, dt_gcm>>]
    ELSE les_forcings(p, g, nat, factor, dt_gcm)

TendenciesKeys ==
    UNION {{<<p, ConvertedTab[<<q, g>>].gcm_Zf, ConvertedTab[<<q, g>>].gcm_Zh,
              g, n, dt, factor>> :
              p \in Profiles, q \in Profiles, n \in Natives,
              dt \in Timesteps, factor \in Factors} : g \in Grids}
TendenciesTab ==
    [k \in TendenciesKeys |->
        set_gcm_tendencies(k[1], k[2], k[3], k[4], k[5], k[6], k[7])] @@ <<>>

GcmTendencies(p, Zf, Zh, g, nat, ft, factor) ==
    IF <<p, Zf, Zh, g, nat, ft, factor>> \in TendenciesKeys
    THEN TendenciesTab[<<p, Zf, Zh, g, nat, ft, factor>>]
    ELSE set_gcm_tendencies(p, Zf, Zh, g, nat, ft, factor)

FluxesKeys == Profiles \cup {p @@ sf : p \in Profiles, sf \in Surfaces}
FluxesTab == [m \in FluxesKeys |-> convert_surface_fluxes(FALSE, m)] @@ <<>>

SurfaceFluxes(m) ==
    IF m \in FluxesKeys THEN FluxesTab[m] ELSE convert_surface_fluxes(FALSE, m)

NudgeKeys ==
    UNION {{<<n, ConvertedTab[<<p, g>>].ql, dt>> :
              p \in Profiles, n \in Natives, dt \in Timesteps} : g \in Grids}
NudgeTab ==
    [k \in NudgeKeys |-> variability_nudge(k[1].qt3, k[1].qsat3, k[2], k[3])] @@ <<>>

VariabilityNudge(nat, ql_ref, dt) ==
    IF <<nat, ql_ref, dt>> \in NudgeKeys THEN NudgeTab[<<nat, ql_ref, dt>>]
    ELSE variability_nudge(nat.qt3, nat.qsat3, ql_ref, dt)

----------------------------------------------------------------------------
(* State                                                                   *)

VARIABLES
    gcm_step,    \* macro model: its position in the cycle of column states
    gcm_prof,    \* macro model: the profile of each column
    gcm_surf,    \* macro model: the surface fields of each column
    gcm_dt,      \* macro model: gcm.get_timestep()
    gcm_tend,    \* macro model: tendencies set per column by set_profile_tendency
    les_grid,    \* per micro model: grid_index and its height grid (zf, zh)
    les_attr,    \* per micro model: the attributes attached by gather_gcm_data
    les_gcm_Z,  \* per micro model: les.gcm_Zf and les.gcm_Zh
    les_ql_ref,  \* per micro model: les.ql_ref
    les_nat,     \* per micro model: its own state, as its getters return it
    last,        \* the last call of the coupling library and what it handed over
    call         \* a single function applied to an argument: [fn, arg, result]

vars == <<gcm_step, gcm_prof, gcm_surf, gcm_dt, gcm_tend, les_grid, les_attr,
          les_gcm_Z, les_ql_ref, les_nat, last, call>>
gcm_vars_ == <<gcm_step, gcm_prof, gcm_surf, gcm_dt>>

LesModels == 1..Len(les_grid)

NoCall == [fn |-> "none", arg |-> None, result |-> None]

\* the record of a call: which operation on which micro model, how it ended
\* ("ok" or the exception raised), and what was computed and handed over
NoOp ==
    [op |-> "none", les |-> 0, status |-> "ok", factor |-> None,
     target |-> None, native |-> None, f |-> None, Zf |-> None, Zh |-> None,
     start_index |-> 0, surf |-> None, nudge |-> None,
     couple_surface |-> FALSE, netcdf |-> <<>>]

NoAttr == [prof_set |-> FALSE, prof |-> None, surf_set |-> FALSE, surf |-> None]
NoHeight == [set |-> FALSE, Zf |-> None, Zh |-> None]
NoTend == [set |-> FALSE, f |-> None]

\* the models right after they are constructed, for n micro models
Constructed(n, configs) ==
    /\ gcm_step = 0
    /\ gcm_prof = [c \in Columns |-> GcmProfileAt(c, 0)]
    /\ gcm_surf = [c \in Columns |-> GcmSurfaceAt(c, 0)]
    /\ gcm_dt = R(600)
    /\ gcm_tend = [c \in Columns |-> NoTend]
    /\ les_grid \in [1..n -> configs]
    /\ les_attr = [l \in 1..n |-> NoAttr]
    /\ les_gcm_Z = [l \in 1..n |-> NoHeight]
    /\ les_ql_ref = [l \in 1..n |-> None]
    /\ les_nat = [l \in 1..n |-> NativeClear(FALSE)]
    /\ last = NoOp

InitCoupling(n, configs) == Constructed(n, configs) /\ call = NoCall

----------------------------------------------------------------------------
(* gather_gcm_data                                                         *)

\* any(cols): a column index of 0 is falsy
AnyCol(cols) == \E i \in 1..Len(cols) : cols[i] # 0

\* the dict C that gather_gcm_data builds for an extra output column, after
\* output_column_conversion: profiles and surface fields under their netCDF
\* names (z0m, z0h, Ph, Pf)
OutputColumn(prof, surf, couple_surface) ==
    LET profile == [U |-> prof.U, V |-> prof.V, T |-> prof.T, SH |-> prof.SH,
                    QL |-> prof.QL, QI |-> prof.QI, Pf |-> prof.Pfull,
                    Ph |-> Tail(prof.Phalf), A |-> prof.A,
                    Tv |-> VirtualT(prof), Zh |-> Tail(HalfHeights(prof)),
                    Psurf |-> Last(prof.Phalf),
                    THL |-> VMul(VSub(prof.T, VScale(Q(rlv, cp), VAdd(prof.QL, prof.QI))),
                                 Arr([i \in 1..Len(prof.T) |-> iexner(prof.Pfull[i])])),
                    QT |-> VAdd(VAdd(prof.SH, prof.QL), prof.QI)]
        surface == [z0m |-> surf.Z0M, z0h |-> surf.Z0H, QLflux |-> surf.QLflux,
                    QIflux |-> surf.QIflux, SHflux |-> surf.SHflux,
                    TLflux |-> surf.TLflux, TSflux |-> surf.TSflux]
    IN  IF couple_surface THEN profile @@ surface ELSE profile

\* what is written for an extra output column: with surface coupling, the
\* four results of convert_surface_fluxes(C) replace z0m, z0h and add wthl, wqt
WrittenColumn(col, prof, surf, couple_surface) ==
    LET C == OutputColumn(prof, surf, couple_surface)
        r == convert_surface_fluxes(TRUE, C)
    IN  IF couple_surface
        THEN [col |-> col, status |-> r.status, Zh |-> C.Zh,
              z0m |-> r.Z0M, z0h |-> r.Z0H, wthl |-> r.wthl, wqt |-> r.wqt]
        ELSE [col |-> col, status |-> "ok", Zh |-> C.Zh,
              z0m |-> None, z0h |-> None, wthl |-> None, wqt |-> None]

gather_gcm_data(couple_surface, extra_cols) ==
    LET cols == [l \in LesModels |-> les_grid[l].grid_index] \o extra_cols
    IN  /\ IF ~AnyCol(cols)
           THEN \* every profile_data[var] is [], and indexing it fails
                /\ last' = [NoOp EXCEPT !.op = "gather_gcm_data",
                                        !.couple_surface = couple_surface,
                                        !.status = "IndexError"]
                /\ UNCHANGED les_attr
           ELSE /\ les_attr' =
                     [l \in LesModels |->
                        [prof_set |-> TRUE,
                         prof |-> gcm_prof[cols[l]],
                         surf_set |-> couple_surface \/ les_attr[l].surf_set,
                         surf |-> IF couple_surface THEN gcm_surf[cols[l]]
                                  ELSE les_attr[l].surf]]
                /\ last' = [NoOp EXCEPT
                              !.op = "gather_gcm_data",
                              !.couple_surface = couple_surface,
                              !.netcdf = [i \in 1..Len(extra_cols) |->
                                  WrittenColumn(extra_cols[i], gcm_prof[extra_cols[i]],
                                                gcm_surf[extra_cols[i]], couple_surface)]]
        /\ UNCHANGED <<gcm_vars_, gcm_tend, les_grid, les_gcm_Z, les_ql_ref,
                       les_nat, call>>

ExtraCols == {<<>>, <<1>>}

Gather ==
    \E couple_surface \in BOOLEAN, extra_cols \in ExtraCols :
        gather_gcm_data(couple_surface, extra_cols)

----------------------------------------------------------------------------
(* set_les_forcings                                                        *)

\* the attributes of a les object that convert_surface_fluxes can see
LesObject(l) ==
    LET a == les_attr[l]
        profile == IF a.prof_set THEN a.prof ELSE <<>>
        surface == IF a.surf_set THEN a.surf ELSE <<>>
    IN  profile @@ surface

\* the effect of set_les_forcings given r, what it computes from the profile,
\* and flux, what convert_surface_fluxes returns or raises
ApplyLesForcings(l, factor, couple_surface, qt_forcing, r, flux) ==
    /\ les_gcm_Z' = [les_gcm_Z EXCEPT
                       ![l] = [set |-> TRUE, Zf |-> r.gcm_Zf, Zh |-> r.gcm_Zh]]
    /\ les_ql_ref' = [les_ql_ref EXCEPT ![l] = r.ql_ref]
    /\ last' = [NoOp EXCEPT
          !.op = "set_les_forcings", !.les = l, !.factor = factor,
          !.status = IF couple_surface /\ flux.status # "ok" THEN flux.status
                     ELSE "ok",
          !.target = r.target, !.native = r.native, !.f = r.f,
          !.Zf = r.gcm_Zf, !.Zh = r.gcm_Zh,
          !.surf = IF couple_surface /\ flux.status = "ok" THEN flux ELSE None,
          !.nudge = IF /\ ~(couple_surface /\ flux.status # "ok")
                       /\ qt_forcing = "variance"
                       /\ les_nat[l].stepped
                    THEN VariabilityNudge(les_nat[l], r.ql_ref, gcm_dt)
                    ELSE None]

set_les_forcings(l, factor, couple_surface, qt_forcing) ==
    /\ IF ~les_attr[l].prof_set
       THEN \* convert_profiles: T is None
            /\ last' = [NoOp EXCEPT !.op = "set_les_forcings", !.les = l,
                                    !.status = "TypeError"]
            /\ UNCHANGED <<les_gcm_Z, les_ql_ref>>
       ELSE ApplyLesForcings(l, factor, couple_surface, qt_forcing,
                LesForcings(les_attr[l].prof, les_grid[l].grid, les_nat[l],
                            factor, gcm_dt),
                SurfaceFluxes(LesObject(l)))
    /\ UNCHANGED <<gcm_vars_, gcm_tend, les_grid, les_attr, les_nat, call>>

QtForcings == {"sp", "variance"}

SetLesForcings ==
    \E l \in LesModels, factor \in Factors, couple_surface \in BOOLEAN,
       qt_forcing \in QtForcings :
        set_les_forcings(l, factor, couple_surface, qt_forcing)

----------------------------------------------------------------------------
(* the micro model takes its time steps (outside the coupling library) and  *)
(* clouds form in it                                                       *)

LesStep ==
    \E l \in LesModels :
        /\ les_nat' = [les_nat EXCEPT ![l] = NativeCloudy]
        /\ last' = [NoOp EXCEPT !.op = "les_step", !.les = l]
        /\ UNCHANGED <<gcm_vars_, gcm_tend, les_grid, les_attr, les_gcm_Z,
                       les_ql_ref, call>>

----------------------------------------------------------------------------
(* set_gcm_tendencies                                                      *)

\* the tendencies written into the slots of every column
set_profile_tendency_all(tend, col, f) ==
    [c \in DOMAIN tend |-> [set |-> TRUE, f |-> f]]

\* gcm.set_profile_tendency(var, col, f_var) for the seven variables: the
\* tendency slots tend of the macro model with those of column col replaced
set_profile_tendency(tend, col, f) ==
    [tend EXCEPT ![col] = [set |-> TRUE, f |-> f]]

\* the effect of set_gcm_tendencies given r, what it computes
ApplyGcmTendencies(l, factor, r) ==
    /\ gcm_tend' = set_profile_tendency(gcm_tend, les_grid[l].grid_index, r.f)
    /\ last' = [NoOp EXCEPT
          !.op = "set_gcm_tendencies", !.les = l, !.factor = factor,
          !.target = r.target, !.native = les_attr[l].prof, !.f = r.f,
          !.Zf = les_gcm_Z[l].Zf, !.Zh = les_gcm_Z[l].Zh,
          !.start_index = r.start_index]

SetGcmTendenciesOf(l, factor) ==
    /\ IF ~les_gcm_Z[l].set
       THEN \* les.gcm_Zf does not exist
            /\ last' = [NoOp EXCEPT !.op = "set_gcm_tendencies", !.les = l,
                                    !.status = "AttributeError"]
            /\ UNCHANGED gcm_tend
       ELSE ApplyGcmTendencies(l, factor,
                GcmTendencies(les_attr[l].prof, les_gcm_Z[l].Zf, les_gcm_Z[l].Zh,
                              les_grid[l].grid, les_nat[l], gcm_dt, factor))
    /\ UNCHANGED <<gcm_vars_, les_grid, les_attr, les_gcm_Z, les_ql_ref,
                   les_nat, call>>

SetGcmTendencies ==
    \E l \in LesModels, factor \in Factors : SetGcmTendenciesOf(l, factor)

----------------------------------------------------------------------------
(* the macro model takes a time step (outside the coupling library)        *)

GcmStep ==
    /\ gcm_step' = (gcm_step + 1) % Len(ProfileKinds)
    /\ gcm_prof' = [c \in Columns |-> GcmProfileAt(c, gcm_step + 1)]
    /\ gcm_surf' = [c \in Columns |-> GcmSurfaceAt(c, gcm_step + 1)]
    /\ last' = [NoOp EXCEPT !.op = "gcm_step"]
    /\ UNCHANGED <<gcm_dt, gcm_tend, les_grid, les_attr, les_gcm_Z,
                   les_ql_ref, les_nat, call>>

----------------------------------------------------------------------------
(* The coupling of one micro model                                         *)

\* the micro models that are coupled: the column each sits in and its grid
LesConfigs ==
    {[grid_index |-> 0, grid |-> MicroGrid(400)],
     [grid_index |-> 1, grid |-> MicroGrid(200)],
     [grid_index |-> 1, grid |-> MicroGrid(1200)]}

Init == InitCoupling(1, LesConfigs)

Next ==
    \/ Gather
    \/ SetLesForcings
    \/ LesStep
    \/ SetGcmTendencies
    \/ GcmStep

Spec == Init /\ [][Next]_vars

----------------------------------------------------------------------------
(* Properties of the micro -> macro pass                                   *)

TendencyVars == {"U", "V", "T", "SH", "QL", "QI", "A"}

\* the last call was set_gcm_tendencies and it returned
SentToGcm == last.op = "set_gcm_tendencies" /\ last.status = "ok"
\* the last call was set_les_forcings and it got past setting the tendencies
\* (it may have failed afterwards, in the surface fluxes)
SentToLes == last.op = "set_les_forcings" /\ ~IsNone(last.Zf)

\* the top of the micro domain of the les of the last call, h[-1]
LastTop == Last(les_grid[last.les].grid.zf)

\* C1: after set_gcm_tendencies, each of the seven tendencies delivered to
\* the macro model is exactly zero at every macro level whose height Zf[i] is
\* at or above the micro domain top h[-1]
C1_ZeroAtOrAboveTop ==
    SentToGcm =>
        \A i \in 1..Len(last.Zf) :
            RLe(LastTop, last.Zf[i]) =>
                \A var \in TendencyVars : last.f[var][i] = RZero

\* the temperature tendency that follows from the temperature reconstructed
\* as thl * exner(pf) + rlv * ql / cp, interpolated to the macro levels
ReconstructedTendencyT ==
    LET g == les_grid[last.les].grid
        t == ReconstructT(last.native, last.Zf, g.zf, les_nat[last.les])
    IN  Tendency(last.factor, Interp(last.Zf, g.zf, t), last.native.T, gcm_dt)

\* the temperature tendency that follows from the temperature the micro
\* model reports itself (get_profile_T), interpolated to the macro levels
ReportedTendencyT ==
    LET g == les_grid[last.les].grid
    IN  Tendency(last.factor, Interp(last.Zf, g.zf, les_nat[last.les].T),
                 last.native.T, gcm_dt)

----------------------------------------------------------------------------
(* Which heights a call uses                                               *)

\* the heights reconstructed from the profile now attached to les l
HalfOfAttached(l) == HalfHeights(les_attr[l].prof)
FullOfAttached(l) == FullHeights(HalfOfAttached(l))

\* what set_gcm_tendencies hands over when it works on the heights Zf, Zh
OnHeights(l, Zf, Zh) ==
    MicroOnMacro(Zf, Zh, les_grid[l].grid.zf, les_grid[l].grid.zh, les_nat[l])

----------------------------------------------------------------------------
(* Tendencies of a state that is already at its target                     *)

AllZero(f) == \A i \in 1..Len(f) : f[i] = RZero

\* C8: in both directions, a variable whose target state equals the native
\* state at every level gets a tendency that is zero at every level, for
\* every relaxation factor and time scale
C8_ZeroWhenAtTarget ==
    (SentToGcm \/ SentToLes) =>
        \A var \in DOMAIN last.f :
            last.target[var] = last.native[var] =>
                IF var = "ps" THEN last.f[var] = RZero
                ELSE AllZero(last.f[var])

\* a micro -> macro pass in which one variable inside the micro domain is at
\* its target and another is not
C8_Witness ==
    /\ SentToGcm
    /\ last.start_index = 0
    /\ last.factor # ROne
    /\ \E var \in TendencyVars : last.target[var] = last.native[var]
    /\ \E var \in TendencyVars : ~AllZero(last.f[var])

----------------------------------------------------------------------------
(* convert_surface_fluxes applied to a dict or to an object                *)

\* the models stay as constructed while a single function is applied
Idle == Constructed(1, {[grid_index |-> 1, grid |-> MicroGrid(400)]})
IdleVars == <<gcm_vars_, gcm_tend, les_grid, les_attr, les_gcm_Z, les_ql_ref,
              les_nat, last>>

\* the fields convert_surface_fluxes asks for in a dict
FluxNames == {"Z0M", "Z0H", "QLflux", "QIflux", "SHflux", "TLflux", "TSflux",
              "Ph", "T"}

\* surface fields and the two lowest levels of a column: sensible heat flux
\* ts, moisture flux terms ql, qi, sh, surface pressure ps, temperature t
FluxFields(ts, ql, qi, sh, ps, t) ==
    [Z0M |-> Q(1, 10), Z0H |-> Q(1, 100), QLflux |-> ql, QIflux |-> qi,
     SHflux |-> sh, TLflux |-> R(-50), TSflux |-> ts,
     Ph |-> <<RSub(ps, R(16000)), ps>>, T |-> <<RSub(t, R(28)), t>>]

MoistureTerms ==
    { <<RZero, RZero, RZero>>, <<RZero, RZero, Q(-1, 10000)>>,
      <<Q(1, 100000), RZero, Q(1, 100000)>>,
      <<Q(1, 100000), RZero, Q(-1, 100000)>>,
      <<Q(-3, 100000), Q(1, 100000), Q(1, 100000)>> }

FluxValues ==
    { FluxFields(ts, q[1], q[2], q[3], ps, t) :
        ts \in {R(-20), RZero, R(10)}, q \in MoistureTerms,
        ps \in {R(90000), R(101000)}, t \in {R(280), R(300)} }

FluxBase == FluxFields(R(10), Q(1, 100000), RZero, Q(1, 100000), R(90000), R(280))

Restrict(m, S) == [n \in S |-> m[n]]

\* the attribute names of a les object: Phalf in the place of Ph
AsObject(m) ==
    [n \in (DOMAIN m \ {"Ph"}) \cup (IF "Ph" \in DOMAIN m THEN {"Phalf"} ELSE {})
       |-> IF n = "Phalf" THEN m["Ph"] ELSE m[n]]

\* the dict of an extra output column: the roughness lengths are under their
\* netCDF names z0m, z0h
AsOutputColumn(m) ==
    [z0m |-> m.Z0M, z0h |-> m.Z0H] @@ Restrict(m, DOMAIN m \ {"Z0M", "Z0H"})

\* the arguments: every selection of fields of one column as a dict and as
\* an object, and complete columns of every sign
FluxInputs ==
    LET dicts == {Restrict(FluxBase, S) : S \in SUBSET FluxNames}
                     \cup FluxValues \cup {AsOutputColumn(m) : m \in FluxValues}
    IN  {[is_dict |-> TRUE, m |-> m] : m \in dicts}
            \cup {[is_dict |-> FALSE, m |-> AsObject(m)] : m \in dicts}

InitFlux ==
    /\ Idle
    /\ call \in {[fn |-> "none", arg |-> a, result |-> None] : a \in FluxInputs}

CallConvertSurfaceFluxes ==
    /\ call.fn = "none"
    /\ call' = [fn |-> "convert_surface_fluxes", arg |-> call.arg,
                result |-> convert_surface_fluxes(call.arg.is_dict, call.arg.m)]
    /\ UNCHANGED IdleVars

NextFlux == CallConvertSurfaceFluxes

SpecFlux == InitFlux /\ [][NextFlux]_vars

\* the fields of FluxNames that the argument of the call lacks
Absent == FluxNames \ DOMAIN call.arg.m

\* C2: given a dict that lacks any one of the fields Z0M, Z0H, QLflux,
\* QIflux, SHflux, TLflux, TSflux, Ph, T, convert_surface_fluxes fails; it
\* returns no result in which an absent field is replaced by a default
C2_FailsOnAbsentField ==
    (/\ call.fn = "convert_surface_fluxes"
     /\ call.arg.is_dict
     /\ Absent # {}) => call.result.status # "ok"

Sign(x) == IF RPos(x) THEN 1 ELSE IF RNegative(x) THEN -1 ELSE 0

\* the call returned, for a positive surface pressure and temperature
FluxesConverted ==
    /\ call.fn = "convert_surface_fluxes"
    /\ call.result.status = "ok"
    /\ LET m == call.arg.m
       IN  /\ RPos(Last(IF call.arg.is_dict THEN m.Ph ELSE m.Phalf))
           /\ RPos(Last(m.T))

\* C9: a strictly positive TSflux gives a strictly negative wthl, and wqt has
\* the opposite sign of QLflux + QIflux + SHflux
C9_FluxSigns ==
    FluxesConverted =>
        LET m == call.arg.m
        IN  /\ RPos(m.TSflux) => RNegative(call.result.wthl)
            /\ Sign(call.result.wqt) =
                  - Sign(RAdd(RAdd(m.QLflux, m.QIflux), m.SHflux))

\* a downward sensible heat flux with a net downward moisture flux made of
\* terms of both signs
C9_Witness ==
    /\ FluxesConverted
    /\ RPos(call.arg.m.TSflux)
    /\ RNegative(call.result.wthl)
    /\ RNegative(call.arg.m.QLflux)
    /\ RPos(call.arg.m.QIflux)
    /\ RPos(call.result.wqt)

----------------------------------------------------------------------------
(* variability_nudge applied to a field                                    *)

\* One level of a micro model, in units of 1e-3: total water x at the first
\* point and y at the others, saturation qsat at every point, and the liquid
\* water ql_ref of the macro model.
LevelKinds ==
    << [x |-> 12, y |-> 8, qsat |-> 11, ql_ref |-> 0],   \* one point above saturation
       [x |-> 12, y |-> 11, qsat |-> 10, ql_ref |-> 0],  \* every point, mean too
       [x |-> 12, y |-> 12, qsat |-> 10, ql_ref |-> 0],  \* uniform, above
       [x |-> 8, y |-> 8, qsat |-> 10, ql_ref |-> 0],    \* uniform, below
       [x |-> 12, y |-> 8, qsat |-> 11, ql_ref |-> 1],   \* target bracketed
       [x |-> 12, y |-> 11, qsat |-> 10, ql_ref |-> 1],  \* too wet already at beta_min
       [x |-> 8, y |-> 8, qsat |-> 10, ql_ref |-> 1],    \* too dry still at beta_max
       \* the mean is 10: saturation at the mean, and the target met at beta_min
       [x |-> 8 + 2 * NPts, y |-> 8, qsat |-> 10, ql_ref |-> 0],
       [x |-> 8 + 2 * NPts, y |-> 8, qsat |-> 9, ql_ref |-> 1] >>

\* the field with level k of kind kinds[k]
NudgeField(kinds, dt) ==
    LET lev == [k \in 1..NZ |-> LevelKinds[kinds[k]]]
    IN  [qt |-> Arr([p \in 1..NPts |-> Arr([k \in 1..NZ |->
                      Q(IF p = 1 THEN lev[k].x ELSE lev[k].y, 1000)])]),
         qsat |-> Arr([p \in 1..NPts |-> Arr([k \in 1..NZ |-> Q(lev[k].qsat, 1000)])]),
         ql_ref |-> Arr([k \in 1..NZ |-> Q(lev[k].ql_ref, 1000)]),
         dt |-> dt]

NudgeInputs ==
    {NudgeField(kinds, dt) :
        kinds \in [1..NZ -> 1..Len(LevelKinds)], dt \in Timesteps}

InitNudge ==
    /\ Idle
    /\ call \in {[fn |-> "none", arg |-> a, result |-> None] : a \in NudgeInputs}

CallVariabilityNudge ==
    /\ call.fn = "none"
    /\ call' = [fn |-> "variability_nudge", arg |-> call.arg,
                result |-> variability_nudge(call.arg.qt, call.arg.qsat,
                                             call.arg.ql_ref, call.arg.dt)]
    /\ UNCHANGED IdleVars

NextNudge == CallVariabilityNudge

SpecNudge == InitNudge /\ [][NextNudge]_vars

Nudged == call.fn = "variability_nudge"
Levels == 1..Len(call.arg.ql_ref)
Points == 1..Len(call.arg.qt)

\* the horizontal mean of qt at level k
MeanAt(k) ==
    RDiv(RSum(Arr([p \in Points |-> call.arg.qt[p][k]])), R(Len(call.arg.qt)))

\* the points of maximum super-saturation at level k
MaxPoints(k) ==
    LET over(p) == RSub(call.arg.qt[p][k], call.arg.qsat[p][k])
    IN  {p \in Points : \A q \in Points : RLe(over(q), over(p))}

\* (qsat - mean) / (qt - mean) at point p of level k
RatioAt(p, k) ==
    FDiv(RSub(call.arg.qsat[p][k], MeanAt(k)), RSub(call.arg.qt[p][k], MeanAt(k)))

\* level k has no liquid water in the macro model and a point above saturation
DeSaturated(k) ==
    /\ call.arg.ql_ref[k] = RZero
    /\ \E p \in Points : RLt(call.arg.qsat[p][k], call.arg.qt[p][k])

\* C5 as stated: at such a level beta is the closed-form ratio at the point
\* of maximum super-saturation, clamped at 0
C5_RatioClampedAtZero ==
    Nudged =>
        \A k \in Levels :
            DeSaturated(k) =>
                \E p \in MaxPoints(k) :
                    call.result.beta[k] = RMax(RatioAt(p, k), RZero)

\* C5: at such a level beta is the closed-form ratio at the point of maximum
\* super-saturation when that ratio is not negative, and the neutral value 1
\* when it is negative
C5_RatioOrNeutral ==
    Nudged =>
        \A k \in Levels :
            DeSaturated(k) =>
                \E p \in MaxPoints(k) :
                    call.result.beta[k] =
                        IF RatioAt(p, k)[1] < 0 THEN ROne ELSE RatioAt(p, k)

\* one level where the ratio is taken and one where it is negative
C5_Witness ==
    /\ Nudged
    /\ \E k \in Levels :
          /\ DeSaturated(k)
          /\ \A p \in MaxPoints(k) : RPos(RatioAt(p, k))
          /\ call.result.beta[k] # ROne
    /\ \E k \in Levels :
          /\ DeSaturated(k)
          /\ \A p \in MaxPoints(k) : RatioAt(p, k)[1] < 0
          /\ call.result.beta[k] = ROne

\* the mean liquid water of the field spread by beta at level k, less ql_ref
DiagnosticAt(beta, k) ==
    RSub(RDiv(RSum(Arr([p \in Points |->
                   RMax(RSub(RAdd(RMul(beta, RSub(call.arg.qt[p][k], MeanAt(k))),
                                  MeanAt(k)),
                             call.arg.qsat[p][k]), RZero)])),
              R(Len(call.arg.qt))),
         call.arg.ql_ref[k])

\* ql_ref[k] > 1e-9
Targeted(k) == Significant(call.arg.ql_ref[k])

Bracketed(k) ==
    /\ RLe(DiagnosticAt(RZero, k), RZero)
    /\ RLe(RZero, DiagnosticAt(R(beta_max), k))

\* C6: at a level with ql_ref above 1e-9 whose target is not bracketed by
\* the diagnostic at 0 and at 2000, beta stays 1 and alpha is 0; the levels
\* that are bracketed still get the beta that meets their target
C6_NoBracketNoNudge ==
    Nudged =>
        \A k \in Levels :
            Targeted(k) =>
                IF Bracketed(k)
                THEN /\ DiagnosticAt(call.result.beta[k], k) = RZero
                     /\ RLe(RZero, call.result.beta[k])
                     /\ RLe(call.result.beta[k], R(beta_max))
                ELSE /\ call.result.beta[k] = ROne
                     /\ call.result.alpha[k] = RZero

\* a field with a level that fails at either end of the bracket and a level,
\* above them, that is nudged to its target
C6_Witness ==
    /\ Nudged
    /\ \E k \in Levels : Targeted(k) /\ RPos(DiagnosticAt(RZero, k))
    /\ \E k \in Levels : Targeted(k) /\ RNegative(DiagnosticAt(R(beta_max), k))
    /\ Targeted(Len(call.arg.ql_ref))
    /\ Bracketed(Len(call.arg.ql_ref))
    /\ call.result.beta[Len(call.arg.ql_ref)] # ROne

----------------------------------------------------------------------------
(* convert_profiles and output_column_conversion applied to a column       *)

\* what a level holds besides its pressure: warm or not, and its water
LevelStates ==
    {[warm |-> w, water |-> q] : w \in BOOLEAN, q \in {"dry", "humid", "cloud"}}

\* how the pressures are laid out: as tabulated, with other cell faces
\* around the same full levels, or at half the pressure throughout
PressureKinds == {"table", "faces", "half"}
PhalfFaces == <<92000, 72000, 60000, 48000, 38000>>

\* a column with level i from the surface in state st[i]; the half-level
\* pressures increase from the top to the surface
ColumnOf(st, pk) ==
    LET lev == Arr([i \in 1..NLev |-> FromSurface(i)])
        scale == IF pk = "half" THEN Q(1, 2) ELSE ROne
        half == IF pk = "faces" THEN PhalfFaces ELSE PhalfTab
        water(i, q, a) == IF st[lev[i]].water \in q THEN a ELSE RZero
    IN  [U |-> Arr([i \in 1..NLev |-> R(3 + 2 * lev[i])]),
         V |-> Arr([i \in 1..NLev |-> R(lev[i])]),
         T |-> Arr([i \in 1..NLev |->
                   R(TDry[lev[i]] + (IF st[lev[i]].warm THEN 14 ELSE 0))]),
         SH |-> Arr([i \in 1..NLev |->
                    RAdd(water(i, {"humid"}, Q(1, 56)), water(i, {"cloud"}, Q(1, 100)))]),
         QL |-> Arr([i \in 1..NLev |-> water(i, {"cloud"}, Q(36, 10000))]),
         QI |-> Arr([i \in 1..NLev |-> water(i, {"cloud"}, Q(2, 1000))]),
         Pfull |-> Arr([i \in 1..NLev |-> RMul(scale, R(PfullTab[lev[i]]))]),
         Phalf |-> Arr([i \in 1..(NLev + 1) |-> RMul(scale, R(half[NLev + 2 - i]))]),
         A |-> Arr([i \in 1..NLev |-> water(i, {"cloud"}, Q(1, 2))])]

HeightInputs ==
    {[p |-> ColumnOf(st, pk), h |-> MicroGrid(dz).zf] :
        st \in [1..NLev -> LevelStates], pk \in PressureKinds, dz \in {400, 1200}}

InitHeights ==
    /\ Idle
    /\ call \in {[fn |-> "none", arg |-> a, result |-> None] : a \in HeightInputs}

CallConvertProfiles ==
    /\ call.fn = "none"
    /\ call' = [fn |-> "convert_profiles", arg |-> call.arg,
                result |-> convert_profiles(call.arg.p, call.arg.h)]
    /\ UNCHANGED IdleVars

\* output_column_conversion on the dict of an extra column without surface
\* fields
CallOutputColumnConversion ==
    /\ call.fn = "none"
    /\ call' = [fn |-> "output_column_conversion", arg |-> call.arg,
                result |-> OutputColumn(call.arg.p, <<>>, FALSE)]
    /\ UNCHANGED IdleVars

NextHeights == CallConvertProfiles \/ CallOutputColumnConversion

SpecHeights == InitHeights /\ [][NextHeights]_vars

\* s decreases strictly with the index: it increases from the surface (last)
\* to the top (first)
RisesFromSurface(s) == \A i \in 1..(Len(s) - 1) : RLt(s[i + 1], s[i])

PressureIncreases ==
    \A i \in 1..(Len(call.arg.p.Phalf) - 1) :
        RLt(call.arg.p.Phalf[i], call.arg.p.Phalf[i + 1])

\* C7: for a column whose half-level pressures increase from the top to the
\* surface, the half-level heights end with 0 at the surface and increase
\* from the surface to the top, and each full-level height is the mean of
\* the two half-level heights around it; output_column_conversion gives the
\* same half-level heights
C7_HeightsRiseFromZero ==
    /\ (call.fn = "convert_profiles" /\ PressureIncreases) =>
          LET Zh == call.result.gcm_Zh
              Zf == call.result.gcm_Zf
          IN  /\ Len(Zh) = Len(call.arg.p.Phalf)
              /\ Last(Zh) = RZero
              /\ RisesFromSurface(Zh)
              /\ Len(Zf) = Len(Zh) - 1
              /\ \A i \in 1..Len(Zf) :
                    Zf[i] = RDiv(RAdd(Zh[i], Zh[i + 1]), R(2))
    /\ (call.fn = "output_column_conversion" /\ PressureIncreases) =>
          /\ Len(call.result.Zh) = Len(call.arg.p.T)
          /\ Last(call.result.Zh) = RZero
          /\ RisesFromSurface(call.result.Zh)

\* the heights of a column whose virtual temperature differs from its
\* temperature
C7_Witness ==
    /\ call.fn = "convert_profiles"
    /\ PressureIncreases
    /\ \E i \in 1..Len(call.arg.p.T) :
          RLt(RAdd(call.arg.p.QL[i], call.arg.p.QI[i]),
              RMul(Q(56, 100), call.arg.p.SH[i]))
    /\ RPos(call.result.gcm_Zh[1])
    /\ Last(call.arg.p.Phalf) # R(PhalfTab[1])

----------------------------------------------------------------------------
(* The coupling of two micro models                                        *)

\* two micro models on the same grid, each in any column
ColumnConfigs == {[grid_index |-> c, grid |-> MicroGrid(400)] : c \in Columns}

InitCols == InitCoupling(2, ColumnConfigs)

NextCols ==
    \/ Gather
    \/ SetLesForcings
    \/ LesStep
    \/ SetGcmTendencies

SpecCols == InitCols /\ [][NextCols]_vars

\* the tendency slots after set_gcm_tendencies(gcm, les l, factor) on the
\* slots tend, in the current state of the models
AfterTendenciesOf(tend, l, factor) ==
    set_profile_tendency(tend, les_grid[l].grid_index,
        GcmTendencies(les_attr[l].prof, les_gcm_Z[l].Zf, les_gcm_Z[l].Zh,
                      les_grid[l].grid, les_nat[l], gcm_dt, factor).f)

ColumnOfLes(l) == les_grid[l].grid_index

\* C10: set_gcm_tendencies for one micro model changes the tendency slots of
\* no column but that model's own; and for micro models in distinct columns
\* the slots after processing one and then the other are the same in either
\* order
C10_OwnColumnOnly ==
    /\ [][\A c \in Columns :
             gcm_tend'[c] # gcm_tend[c] =>
                /\ last'.op = "set_gcm_tendencies"
                /\ last'.status = "ok"
                /\ c = les_grid[last'.les].grid_index
                /\ gcm_tend'[c] = [set |-> TRUE, f |-> last'.f]]_vars
    /\ [](\A l1, l2 \in LesModels :
            (/\ ColumnOfLes(l1) # ColumnOfLes(l2)
             /\ les_gcm_Z[l1].set
             /\ les_gcm_Z[l2].set) =>
                \A f1, f2 \in Factors :
                    AfterTendenciesOf(AfterTendenciesOf(gcm_tend, l1, f1), l2, f2)
                        = AfterTendenciesOf(AfterTendenciesOf(gcm_tend, l2, f2), l1, f1))

\* both micro models, in distinct columns and in different states, have
\* handed over their tendencies, the second after the first
C10_Witness ==
    /\ SentToGcm
    /\ last.les = 1
    /\ ColumnOfLes(1) # ColumnOfLes(2)
    /\ gcm_tend[ColumnOfLes(1)].set
    /\ gcm_tend[ColumnOfLes(2)].set
    /\ gcm_tend[ColumnOfLes(1)].f # gcm_tend[ColumnOfLes(2)].f
    /\ les_nat[1] # les_nat[2]

----------------------------------------------------------------------------
(* What the micro models hold after gather_gcm_data                        *)

\* C11: after gather_gcm_data, for every assignment of column indices to
\* the micro models, 0 included, the call has returned and each micro model
\* holds the profile of the column at its own grid_index, and with surface
\* coupling that column's surface fields
C11_EachHoldsItsColumn ==
    last.op = "gather_gcm_data" =>
        /\ last.status = "ok"
        /\ \A l \in LesModels :
              /\ les_attr[l].prof_set
              /\ les_attr[l].prof = gcm_prof[les_grid[l].grid_index]
              /\ last.couple_surface =>
                    /\ les_attr[l].surf_set
                    /\ les_attr[l].surf = gcm_surf[les_grid[l].grid_index]

----------------------------------------------------------------------------
(* The rate variability_nudge hands to the micro model                     *)

Finite(a) == a \notin {PosInf, NegInf, NaN}

\* C12: at the end of variability_nudge beta is strictly positive at every
\* level, whichever branch set it, and the rate alpha = ln(beta) / dt handed
\* to set_qt_variability_factor is finite
C12_BetaPositive ==
    Nudged =>
        \A k \in Levels :
            /\ RPos(call.result.beta[k])
            /\ Finite(call.result.alpha[k])

====
